---- MODULE Spec2Model ----
(***************************************************************************)
(* mindl download coordinator: DownloadManager.Download                    *)
(* (downloadmanager.go).  One main goroutine (the select loop), one        *)
(* spawner goroutine and one worker goroutine per thunk, communicating     *)
(* over the channels interrupt (cap 1), done (unbuffered), got (cap W),    *)
(* workerLimiter (cap W) and ec (cap W), plus the WaitGroup wg.            *)
(*                                                                         *)
(* Go channel semantics kept by the model: a send to a channel on which    *)
(* the main goroutine is parked in its select (no case ready) is handed    *)
(* to it directly and resolves the select; a select with several ready     *)
(* cases picks any of them.                                                *)
(*                                                                         *)
(* Plugin code is modelled by what the plugins of the repository do:       *)
(* DownloadGenerator returns a generator or panics, the generator yields   *)
(* nThunks thunks and then nil, a thunk saves files through its reporter   *)
(* and returns nil, returns an error or panics, Cleanup returns or panics  *)
(* (BookWalker.Cleanup -> logout).  No generator of the repository panics  *)
(* after its construction, so the spawner's recover (lines 351-356) is     *)
(* never entered and is left out.                                          *)
(***************************************************************************)
EXTENDS Integers, Sequences, FiniteSets, TLC

\* ---- bounds of the model (inputs of Download are drawn below them) ----
MaxWorkers == 2
MaxThunks == 2
MaxSaves == 2
MaxSignals == 1
NumDests == 1
MaxSinks == 2
MaxWrites == 2
MaxArtifacts == 2
MaxTiles == 3
MaxRemainder == 1
MaxDummy == 1
MaxCalls == 2
MaxPayload == 3
MaxCid == 3
MaxK == 2
MaxData == 3
MaxPadding == 1
MaxName == 2
MaxRows == 8

\* ---- error values: <<kind, worker id>> ----
Nil == <<"nil", 0>>
ErrInterrupted == <<"ErrInterrupted", 0>>
ErrNoDownloaders == <<"Got no downloaders from the plugin.", 0>>
ErrZip == <<"zip error", 0>>
Recovered == <<"recovered panic", 0>>
ThunkErr(n) == <<"thunk error", n>>
WorkerPanicErr(n) == <<"Worker panicked", n>>

Workers == 0 .. (MaxThunks - 1)
Dests == 1 .. NumDests

VARIABLES
    W,          \* maxWorkers argument
    nThunks,    \* number of thunks the plugin's generator yields before nil
    mainPc,     \* position of Download's goroutine
    cur,        \* value received by the main select (error or path)
    interrupt,  \* number of signals buffered in the interrupt channel (cap 1)
    got,        \* buffered saved-path channel (cap W)
    paths,      \* dm.paths
    spPc,       \* position of the spawner goroutine
    doneVal,    \* value the spawner is sending on done
    next,       \* next != nil
    genCalls,   \* number of calls of dlgen made so far
    dlCount,    \* dlCount
    limiter,    \* number of tokens in workerLimiter (cap W)
    ec,         \* error channel (cap W)
    wg,         \* WaitGroup counter
    wpc,        \* position of each worker goroutine
    wdst,       \* path a worker blocked on got is sending
    pdone,      \* number of progress.Done(n) calls per worker id
    cleanupLog, \* arguments of the plugin.Cleanup calls, in order
    retErr,     \* error returned by Download
    retPaths,   \* list returned by Download
    sent,       \* history: every path sent on got, in order
    firstErr,   \* history: first error sent on ec
    signals,    \* history: number of signals delivered
    intrActive, \* history: a signal was delivered while the loop ran and a thunk was running
    exitVia,    \* history: the exit path Download took
    handed,     \* history: the thunks passed to worker goroutines, in launch order
    sinks,      \* the sinks of one DownloadReporter (FileWriter / SaveData calls)
    directory,  \* dm.directory, a string (sequence of characters)
    zip,        \* locals and file-system effects of one ZipDownloads call
    ds,         \* the BookWalker descrambler: rectangleCollections and its mutex
    call,       \* the last BookWalker Descramble call: arguments and result
    pair,       \* history: the fields the BinB key pair was written from
    Ctbl,       \* BinB Descrambler.Ctbl
    Ptbl,       \* BinB Descrambler.Ptbl
    binb,       \* result of binb.NewDescrambler(ctbl, ptbl)
    api,        \* one BinB Api.decryptData call: receiver, argument, locals
    special,    \* Download up to its DownloadGenerator call: arguments, hidden options
    conc,       \* concurrent Descramble calls on one cache cell of one descrambler
    dsc         \* one binb Descramble call: the descrambler, arguments, locals

vars == <<W, nThunks, mainPc, cur, interrupt, got, paths, spPc, doneVal,
          next, genCalls, dlCount, limiter, ec, wg, wpc, wdst, pdone,
          cleanupLog, retErr, retPaths, sent, firstErr, signals,
          intrActive, exitVia, handed, sinks, directory, zip, ds, call,
          pair, Ctbl, Ptbl, binb, api, special,
          conc, dsc>>

mainVars == <<mainPc, cur, paths, cleanupLog, retErr, retPaths, exitVia>>
spVars == <<spPc, doneVal, next, genCalls, dlCount, handed>>
wkVars == <<wpc, wdst, pdone>>
inVars == <<W, nThunks>>

\* State of the components that Download's goroutines do not touch.
sinkVars == <<sinks>>
zipVars == <<directory, zip>>
bwVars == <<ds, call>>
binbVars == <<pair, Ctbl, Ptbl, binb>>
restVars == <<api, special, conc, dsc>>
otherVars == <<sinkVars, zipVars, bwVars, binbVars, restVars>>

\* ---- the sinks of a DownloadReporter ----
Sinks == 1 .. MaxSinks

\* A sink that has not been asked for yet.  kind: the reporter method that
\* made it; pc: how far the thunk got with it; file: the os.File behind it;
\* werr: a write to it (or the copy into it) failed; writes: Write calls made.
NoSink == [kind |-> "-", pc |-> "none", file |-> "none", werr |-> FALSE, writes |-> 0]
NoSinks == [s \in Sinks |-> NoSink]

SinkIdle == sinks = NoSinks

\* ---- ZipDownloads: strings are sequences of one-character strings ----
Sep == "/"

\* ZipDownloads has not been called.
NoZip == [pc |-> "idle"]
NoDirectory == <<>>

ZipIdle ==
    /\ directory = NoDirectory
    /\ zip = NoZip

\* ---- BookWalker descrambler: constants of the scheme ----
rectangleWidth == 64
rectangleHeight == 64
patternCount == 4
jsa == 61
jsb == 73
jsc == 4
jsd == 43
jse == 47
jsf == 53
jsg == 59
jsh == 67
jsi == 71
jsj == 29
jsk == 37
jsl == 31
jsm == 41

\* A descrambler with no cached collection (nil entries) and a free mutex.
NoCollection == [rectangles |-> <<>>, srcWidth |-> -1, srcHeight |-> -1,
                 dstWidth |-> -1, dstHeight |-> -1]
NewBookWalkerDescrambler ==
    [rectangleCollections |-> [p \in 1 .. patternCount |-> NoCollection],
     locked |-> FALSE]
NoCall == [n |-> 0, result |-> "-"]

BookWalkerIdle ==
    /\ ds = NewBookWalkerDescrambler
    /\ call = NoCall

\* ---- BinB descrambler ----
\* NewDescrambler has not been called.
NoPair == <<>>
NoTable == <<>>
NoDescrambler == [result |-> "-"]

BinbIdle ==
    /\ pair = NoPair
    /\ Ctbl = NoTable
    /\ Ptbl = NoTable
    /\ binb = NoDescrambler

\* ---- BinB Api.decryptData ----
\* decryptData has not been called.
NoApi == [pc |-> "idle"]

\* ---- the hidden options of a plugin (Download, lines 305-321) ----
NoSpecial == [pc |-> "idle"]

\* No Descramble call is running.
NoConc == [kind |-> "-"]

\* binb Descramble has not been called.
NoDescramble == [pc |-> "idle"]

\* The components settled on their own further below are not in use.
RestIdle ==
    /\ api = NoApi
    /\ special = NoSpecial
    /\ conc = NoConc
    /\ dsc = NoDescramble

DownloadInit ==
    /\ W \in 1 .. MaxWorkers
    /\ nThunks \in 0 .. MaxThunks
    /\ mainPc = "start"
    /\ cur = Nil
    /\ interrupt = 0
    /\ got = <<>>
    /\ paths = <<>>
    /\ spPc = "notstarted"
    /\ doneVal = Nil
    /\ next = FALSE
    /\ genCalls = 0
    /\ dlCount = 0
    /\ limiter = 0
    /\ ec = <<>>
    /\ wg = 0
    /\ wpc = [n \in Workers |-> "none"]
    /\ wdst = [n \in Workers |-> 0]
    /\ pdone = [n \in Workers |-> 0]
    /\ cleanupLog = <<>>
    /\ retErr = Nil
    /\ retPaths = <<>>
    /\ sent = <<>>
    /\ firstErr = Nil
    /\ signals = 0
    /\ intrActive = FALSE
    /\ exitVia = "-"
    /\ handed = <<>>

Init ==
    /\ DownloadInit
    /\ SinkIdle
    /\ ZipIdle
    /\ BookWalkerIdle
    /\ BinbIdle
    /\ RestIdle

\* Download has not been called (state of the manager while one of the
\* other components is looked at on its own).
DownloadIdle ==
    /\ DownloadInit
    /\ W = 1
    /\ nThunks = 0

\* ---- helpers ----

\* dlgen(): the i-th call (from 0) yields a thunk iff i < nThunks.
Dlgen(i) == i < nThunks

\* Thunks that have been started and have not yet returned.
Running == {n \in Workers : wpc[n] \in {"run", "save"}}

\* Workers launched and not yet finished (wg.Done not yet called).
InFlight == {n \in Workers : wpc[n] \notin {"none", "done"}}

\* The main goroutine is parked in its select: no case is ready.
Parked ==
    /\ mainPc = "select"
    /\ interrupt = 0
    /\ got = <<>>
    /\ spPc # "senddone"

Exited == mainPc \in {"returned", "panicked"}

\* A limiter that admits one worker too many.
SlotFreeOffByOne == limiter <= W

\* select at line 362: the workerLimiter send is ready.
SlotFree == limiter < W

\* A launch that passes the thunk of the preceding round once more.
HeldThunkStale == IF dlCount = 0 THEN genCalls - 1 ELSE genCalls - 2

\* line 403: the thunk held in next, passed by value to the new worker; thunks
\* are numbered by the dlgen() call that returned them.
HeldThunk == genCalls - 1

\* A launch that numbers the worker by the slot it took.
WorkerIdSlot == limiter

\* line 403: the id passed to the new worker is dlCount, by value.
WorkerId == dlCount

\* select at line 362: the ec receive is ready.
ErrReady == ec # <<>>

\* A spawner that forgets the errors still buffered after wg.Wait.
FinalValueNoErr(errs, count) ==
    IF count = 0 THEN ErrNoDownloaders ELSE Nil

\* A spawner that does not check dlCount.
FinalValueNoCount(errs, count) ==
    IF errs # <<>> THEN Head(errs) ELSE Nil

\* lines 407-421: value sent on done after wg.Wait.
FinalValue(errs, count) ==
    IF errs # <<>> THEN Head(errs)
    ELSE IF count = 0 THEN ErrNoDownloaders
    ELSE Nil

\* A main loop that takes every completion message for a success.
DoneIsErrorNever(v) == FALSE

\* line 436: err != nil
DoneIsError(v) == v # Nil

\* Outcomes of plugin.Cleanup.
CleanupPanics == BOOLEAN

\* plugin.Cleanup(arg) followed by return rp, re; the deferred recover of
\* lines 297-303 calls Cleanup again when the call panics and re-panics.
CleanupAndReturn(arg, rp, re, via) ==
    /\ \E p \in CleanupPanics :
        IF p
        THEN /\ cleanupLog' = cleanupLog \o <<arg, Recovered>>
             /\ mainPc' = "panicked"
             /\ UNCHANGED <<retErr, retPaths>>
        ELSE /\ cleanupLog' = Append(cleanupLog, arg)
             /\ mainPc' = "returned"
             /\ retErr' = re
             /\ retPaths' = rp
    /\ exitVia' = via

\* ---- environment ----

\* os.Interrupt delivered through signal.Notify (non-blocking send on a
\* channel of capacity 1; a signal arriving on a full channel is dropped).
Interrupt ==
    /\ ~Exited
    /\ signals < MaxSignals
    /\ interrupt = 0
    /\ signals' = signals + 1
    /\ intrActive' = (intrActive \/ (mainPc \in {"select", "onPath"} /\ Running # {}))
    /\ IF Parked
       THEN /\ mainPc' = "onInterrupt"
            /\ UNCHANGED interrupt
       ELSE /\ interrupt' = 1
            /\ UNCHANGED mainPc
    /\ UNCHANGED <<otherVars, inVars, cur, paths, cleanupLog, retErr, retPaths, exitVia,
                   got, spVars, limiter, ec, wg, wkVars, sent, firstErr>>

\* ---- main goroutine ----

\* lines 296-349: DownloadGenerator, first dlgen() call, start of the spawner.
MainStart ==
    /\ mainPc = "start"
    /\ \E g \in {"ok", "nil", "panic"} :
        IF g = "ok"
        THEN /\ next' = Dlgen(0)
             /\ genCalls' = 1
             /\ spPc' = "loop"
             /\ mainPc' = "setup"
             /\ UNCHANGED <<cleanupLog, exitVia>>
        ELSE /\ cleanupLog' = Append(cleanupLog, Recovered)
             /\ mainPc' = "panicked"
             /\ exitVia' = "panic"
             /\ UNCHANGED <<next, genCalls, spPc>>
    /\ UNCHANGED <<otherVars, inVars, cur, interrupt, got, paths, doneVal, dlCount, limiter,
                   ec, wg, wkVars, retErr, retPaths, sent, firstErr, signals,
                   intrActive, handed>>

\* lines 424-427
MainSetup ==
    /\ mainPc = "setup"
    /\ paths' = <<>>
    /\ mainPc' = "select"
    /\ UNCHANGED <<otherVars, inVars, cur, interrupt, got, cleanupLog, retErr, retPaths,
                   exitVia, spVars, limiter, ec, wg, wkVars, sent, firstErr,
                   signals, intrActive>>

\* line 431: the interrupt case is chosen.
MainSelectInterrupt ==
    /\ mainPc = "select"
    /\ interrupt = 1
    /\ interrupt' = 0
    /\ mainPc' = "onInterrupt"
    /\ UNCHANGED <<otherVars, inVars, cur, got, paths, cleanupLog, retErr, retPaths, exitVia,
                   spVars, limiter, ec, wg, wkVars, sent, firstErr, signals,
                   intrActive>>

\* line 435: the done case is chosen (rendezvous with the spawner).
MainSelectDone ==
    /\ mainPc = "select"
    /\ spPc = "senddone"
    /\ cur' = doneVal
    /\ doneVal' = Nil
    /\ spPc' = "exited"
    /\ mainPc' = "onDone"
    /\ UNCHANGED <<otherVars, inVars, interrupt, got, paths, cleanupLog, retErr, retPaths,
                   exitVia, next, genCalls, dlCount, limiter, ec, wg,
                   wkVars, sent, firstErr, signals, intrActive, handed>>

\* line 443: the got case is chosen.
MainSelectGot ==
    /\ mainPc = "select"
    /\ got # <<>>
    /\ cur' = <<"path", Head(got)>>
    /\ got' = Tail(got)
    /\ mainPc' = "onPath"
    /\ UNCHANGED <<otherVars, inVars, interrupt, paths, cleanupLog, retErr, retPaths, exitVia,
                   spVars, limiter, ec, wg, wkVars, sent, firstErr, signals,
                   intrActive>>

\* lines 432-434
MainOnInterrupt ==
    /\ mainPc = "onInterrupt"
    /\ CleanupAndReturn(ErrInterrupted, <<>>, ErrInterrupted, "interrupt")
    /\ UNCHANGED <<otherVars, inVars, cur, interrupt, got, paths, spVars, limiter, ec, wg,
                   wkVars, sent, firstErr, signals, intrActive>>

\* lines 436-442
MainOnDone ==
    /\ mainPc = "onDone"
    /\ IF DoneIsError(cur)
       THEN CleanupAndReturn(cur, <<>>, cur, "done")
       ELSE /\ mainPc' = "post"
            /\ UNCHANGED <<cleanupLog, retErr, retPaths, exitVia>>
    /\ cur' = Nil
    /\ UNCHANGED <<otherVars, inVars, interrupt, got, paths, spVars, limiter, ec, wg,
                   wkVars, sent, firstErr, signals, intrActive>>

\* lines 444-450
MainOnPath ==
    /\ mainPc = "onPath"
    /\ paths' = Append(paths, cur[2])
    /\ cur' = Nil
    /\ mainPc' = "select"
    /\ UNCHANGED <<otherVars, inVars, interrupt, got, cleanupLog, retErr, retPaths,
                   exitVia, spVars, limiter, ec, wg, wkVars, sent, firstErr,
                   signals, intrActive>>

\* lines 454-464: optional packaging, Cleanup, return.  The zipit argument is
\* read here only; ZipDownloads may fail when it is set.
MainFinish ==
    /\ mainPc = "post"
    /\ \E zipit \in BOOLEAN, zipFails \in BOOLEAN :
        IF zipit /\ zipFails
        THEN CleanupAndReturn(ErrZip, paths, ErrZip, "zip")
        ELSE CleanupAndReturn(Nil, paths, Nil, "clean")
    /\ UNCHANGED <<otherVars, inVars, cur, interrupt, got, paths, spVars, limiter, ec, wg,
                   wkVars, sent, firstErr, signals, intrActive>>

\* ---- spawner goroutine ----

\* done <- v: handed to the main goroutine when it is parked in the select,
\* otherwise the spawner blocks on the send.
SendDone(v) ==
    IF Parked
    THEN /\ mainPc' = "onDone"
         /\ cur' = v
         /\ spPc' = "exited"
         /\ UNCHANGED doneVal
    ELSE /\ spPc' = "senddone"
         /\ doneVal' = v
         /\ UNCHANGED <<mainPc, cur>>

\* lines 360-368, 370-404: a slot is taken, the worker is launched with
\* id dlCount, the generator is advanced.
SpawnerLaunch ==
    /\ spPc = "loop"
    /\ next
    /\ SlotFree
    /\ limiter' = limiter + 1
    /\ wg' = wg + 1
    /\ wpc' = [wpc EXCEPT ![WorkerId] = "run"]
    /\ next' = Dlgen(genCalls)
    /\ genCalls' = genCalls + 1
    /\ dlCount' = dlCount + 1
    /\ handed' = Append(handed, HeldThunk)
    /\ UNCHANGED <<otherVars, inVars, mainVars, interrupt, got, spPc, doneVal, ec,
                   wdst, pdone, sent, firstErr, signals, intrActive>>

\* lines 363-366: an error is received from ec and passed down on done.
SpawnerTakeErr ==
    /\ spPc = "loop"
    /\ next
    /\ ErrReady
    /\ ec' = Tail(ec)
    /\ SendDone(Head(ec))
    /\ UNCHANGED <<otherVars, inVars, paths, cleanupLog, retErr, retPaths, exitVia,
                   interrupt, got, next, genCalls, dlCount, limiter, wg, wkVars,
                   sent, firstErr, signals, intrActive, handed>>

\* lines 407-421: wg.Wait, the last look at ec, the completion message.
SpawnerFinish ==
    /\ spPc = "loop"
    /\ ~next
    /\ wg = 0
    /\ ec' = IF ec # <<>> THEN Tail(ec) ELSE ec
    /\ SendDone(FinalValue(ec, dlCount))
    /\ UNCHANGED <<otherVars, inVars, paths, cleanupLog, retErr, retPaths, exitVia,
                   interrupt, got, next, genCalls, dlCount, limiter, wg, wkVars,
                   sent, firstErr, signals, intrActive, handed>>

\* ---- worker goroutines ----

\* Number of save operations the thunks have issued so far.
SavesIssued == Len(sent) + Cardinality({n \in Workers : wpc[n] = "save"})

\* dr.saved <- dst (lines 134, 209, 233): handed to a parked main goroutine,
\* buffered when got has room, otherwise the worker blocks.
WorkerSave(n) ==
    /\ wpc[n] = "run"
    /\ SavesIssued < MaxSaves
    /\ \E d \in Dests :
        IF Parked
        THEN /\ mainPc' = "onPath"
             /\ cur' = <<"path", d>>
             /\ sent' = Append(sent, d)
             /\ UNCHANGED <<got, wpc, wdst>>
        ELSE IF Len(got) < W
        THEN /\ got' = Append(got, d)
             /\ sent' = Append(sent, d)
             /\ UNCHANGED <<mainPc, cur, wpc, wdst>>
        ELSE /\ wpc' = [wpc EXCEPT ![n] = "save"]
             /\ wdst' = [wdst EXCEPT ![n] = d]
             /\ UNCHANGED <<mainPc, cur, got, sent>>
    /\ UNCHANGED <<otherVars, inVars, paths, cleanupLog, retErr, retPaths, exitVia,
                   interrupt, spVars, limiter, ec, wg, pdone, firstErr,
                   signals, intrActive>>

\* A worker blocked on got completes its send once the buffer has room.
WorkerSendBlocked(n) ==
    /\ wpc[n] = "save"
    /\ Len(got) < W
    /\ got' = Append(got, wdst[n])
    /\ sent' = Append(sent, wdst[n])
    /\ wpc' = [wpc EXCEPT ![n] = "run"]
    /\ wdst' = [wdst EXCEPT ![n] = 0]
    /\ UNCHANGED <<otherVars, inVars, mainVars, interrupt, spVars, limiter, ec, wg,
                   pdone, firstErr, signals, intrActive>>

\* line 397: the thunk returns nil, returns an error or panics.
WorkerReturn(n) ==
    /\ wpc[n] = "run"
    /\ \E r \in {"ret_ok", "ret_err", "ret_panic"} :
        wpc' = [wpc EXCEPT ![n] = r]
    /\ UNCHANGED <<otherVars, inVars, mainVars, interrupt, got, spVars, limiter, ec, wg,
                   wdst, pdone, sent, firstErr, signals, intrActive>>

\* The error a failed worker sends on ec (lines 377, 398).
WorkerErr(n, pc) == IF pc = "ret_err" THEN ThunkErr(n) ELSE WorkerPanicErr(n)

\* Done calls of a worker whose thunk is not covered by a deferred call.
progressDoneUndeferred(pc) == IF pc = "ret_ok" THEN 1 ELSE 0

\* line 395: defer dm.progress.Done(n) runs however the thunk ended.
progressDone(pc) == IF pc \in {"ret_ok", "ret_err", "ret_panic"} THEN 1 ELSE 0

\* A worker that frees its slot however the thunk ended.
freesSlotAlways(pc) == pc \in {"ret_ok", "ret_err", "ret_panic"}

\* lines 398-402: <-workerLimiter is reached only when the thunk returned nil.
freesSlot(pc) == pc = "ret_ok"

\* lines 375-378, 395, 397-402: the slot is freed on success, the error is
\* sent on ec otherwise; progress.Done(n) runs as a deferred call.
WorkerReport(n) ==
    /\ wpc[n] \in {"ret_ok", "ret_err", "ret_panic"}
    /\ IF wpc[n] = "ret_ok"
       THEN UNCHANGED <<ec, firstErr>>
       ELSE /\ Len(ec) < W
            /\ ec' = Append(ec, WorkerErr(n, wpc[n]))
            /\ firstErr' = IF firstErr = Nil THEN WorkerErr(n, wpc[n]) ELSE firstErr
    /\ limiter' = IF freesSlot(wpc[n]) THEN limiter - 1 ELSE limiter
    /\ pdone' = [pdone EXCEPT ![n] = @ + progressDone(wpc[n])]
    /\ wpc' = [wpc EXCEPT ![n] = "reported"]
    /\ UNCHANGED <<otherVars, inVars, mainVars, interrupt, got, spVars, wg, wdst,
                   sent, signals, intrActive>>

\* line 379: wg.Done()
WorkerExit(n) ==
    /\ wpc[n] = "reported"
    /\ wg' = wg - 1
    /\ wpc' = [wpc EXCEPT ![n] = "done"]
    /\ UNCHANGED <<otherVars, inVars, mainVars, interrupt, got, spVars, limiter, ec,
                   wdst, pdone, sent, firstErr, signals, intrActive>>

Next ==
    \/ Interrupt
    \/ MainStart
    \/ MainSetup
    \/ MainSelectInterrupt
    \/ MainSelectDone
    \/ MainSelectGot
    \/ MainOnInterrupt
    \/ MainOnDone
    \/ MainOnPath
    \/ MainFinish
    \/ SpawnerLaunch
    \/ SpawnerTakeErr
    \/ SpawnerFinish
    \/ \E n \in Workers : WorkerSave(n)
    \/ \E n \in Workers : WorkerSendBlocked(n)
    \/ \E n \in Workers : WorkerReturn(n)
    \/ \E n \in Workers : WorkerReport(n)
    \/ \E n \in Workers : WorkerExit(n)

Spec == Init /\ [][Next]_vars

\* ---- a run without interrupt, every goroutine scheduled fairly ----
MainStep ==
    \/ MainStart
    \/ MainSetup
    \/ MainSelectDone
    \/ MainSelectGot
    \/ MainOnDone
    \/ MainOnPath
    \/ MainFinish

SpawnerStep ==
    \/ SpawnerLaunch
    \/ SpawnerTakeErr
    \/ SpawnerFinish

WorkerStep(n) ==
    \/ WorkerSave(n)
    \/ WorkerSendBlocked(n)
    \/ WorkerReturn(n)
    \/ WorkerReport(n)
    \/ WorkerExit(n)

QuietNext ==
    \/ MainStep
    \/ SpawnerStep
    \/ \E n \in Workers : WorkerStep(n)

\* A runnable goroutine is eventually run; a thunk that can return
\* eventually does.
FairSpec ==
    /\ Init
    /\ [][QuietNext]_vars
    /\ WF_vars(MainStep)
    /\ WF_vars(SpawnerStep)
    /\ \A n \in Workers : WF_vars(WorkerStep(n)) /\ WF_vars(WorkerReturn(n))

\* ---- DownloadReporter: FileWriter, IOController and SaveData ----

\* Download with W = 1 and one thunk, at the moment worker 0 runs the thunk
\* and the main goroutine is in its select loop.
OneWorkerRunning ==
    /\ W = 1
    /\ nThunks = 1
    /\ mainPc = "select"
    /\ cur = Nil
    /\ interrupt = 0
    /\ got = <<>>
    /\ paths = <<>>
    /\ spPc = "loop"
    /\ doneVal = Nil
    /\ next = FALSE
    /\ genCalls = 2
    /\ dlCount = 1
    /\ limiter = 1
    /\ ec = <<>>
    /\ wg = 1
    /\ wpc = [n \in Workers |-> IF n = 0 THEN "run" ELSE "none"]
    /\ wdst = [n \in Workers |-> 0]
    /\ pdone = [n \in Workers |-> 0]
    /\ cleanupLog = <<>>
    /\ retErr = Nil
    /\ retPaths = <<>>
    /\ sent = <<>>
    /\ firstErr = Nil
    /\ signals = 0
    /\ intrActive = FALSE
    /\ exitVia = "-"
    /\ handed = <<0>>

SinkInit ==
    /\ OneWorkerRunning
    /\ sinks = NoSinks
    /\ ZipIdle
    /\ BookWalkerIdle
    /\ BinbIdle
    /\ RestIdle

\* The variables of Download a sink operation leaves alone (all but got).
sinkFrame == <<inVars, mainVars, interrupt, spVars, limiter, ec, wg, wkVars,
               sent, firstErr, signals, intrActive, zipVars, bwVars, binbVars,
               restVars>>

\* FileWriter (lines 112-143): os.Create succeeds or fails; on success the
\* IOController wraps the file and the close callback is registered.
FileWriter(s) ==
    /\ sinks[s].pc = "none"
    /\ \E created \in BOOLEAN :
        sinks' = [sinks EXCEPT ![s] =
                    IF created
                    THEN [@ EXCEPT !.kind = "FileWriter", !.pc = "open", !.file = "open"]
                    ELSE [@ EXCEPT !.kind = "FileWriter", !.pc = "failed"]]
    /\ UNCHANGED <<sinkFrame, got>>

\* IOController.Write (lines 65-77): the data callbacks, then the file's
\* Write, which succeeds or fails.
IOControllerWrite(s) ==
    /\ sinks[s].kind = "FileWriter"
    /\ sinks[s].pc = "open"
    /\ sinks[s].writes < MaxWrites
    /\ \E ok \in BOOLEAN :
        sinks' = [sinks EXCEPT ![s] =
                    [@ EXCEPT !.writes = @ + 1, !.werr = @ \/ ~ok]]
    /\ UNCHANGED <<sinkFrame, got>>

\* IOController.Close, first half (lines 80-84): the close callback of
\* lines 133-136 sends dst on dr.saved (blocking while the channel is full).
IOControllerCloseCallbacks(s) ==
    /\ sinks[s].kind = "FileWriter"
    /\ sinks[s].pc = "open"
    /\ Len(got) < W
    /\ got' = Append(got, s)
    /\ sinks' = [sinks EXCEPT ![s].pc = "notified"]
    /\ UNCHANGED sinkFrame

\* IOController.Close, second half (lines 86-88): the file's own Close,
\* which succeeds or fails.
IOControllerCloseFile(s) ==
    /\ sinks[s].kind = "FileWriter"
    /\ sinks[s].pc = "notified"
    /\ \E ok \in BOOLEAN :
        sinks' = [sinks EXCEPT ![s] =
                    [@ EXCEPT !.pc = "closed",
                              !.file = IF ok THEN "closed" ELSE "closeerr"]]
    /\ UNCHANGED <<sinkFrame, got>>

\* SaveData, lines 188-205: os.Create, then the copy of src into the file;
\* a failed copy returns its error.
SaveDataCopy(s) ==
    /\ sinks[s].pc = "none"
    /\ \E created \in BOOLEAN, ok \in BOOLEAN :
        sinks' = [sinks EXCEPT ![s] =
                    IF ~created
                    THEN [@ EXCEPT !.kind = "SaveData", !.pc = "failed"]
                    ELSE [@ EXCEPT !.kind = "SaveData", !.file = "open",
                                   !.writes = 1, !.werr = ~ok,
                                   !.pc = IF ok THEN "copied" ELSE "deferred"]]
    /\ UNCHANGED <<sinkFrame, got>>

\* SaveData, line 209: dr.saved <- dst after a successful copy.
SaveDataNotify(s) ==
    /\ sinks[s].kind = "SaveData"
    /\ sinks[s].pc = "copied"
    /\ Len(got) < W
    /\ got' = Append(got, s)
    /\ sinks' = [sinks EXCEPT ![s].pc = "deferred"]
    /\ UNCHANGED sinkFrame

\* SaveData, line 203: the deferred f.Close() runs when SaveData returns.
SaveDataClose(s) ==
    /\ sinks[s].kind = "SaveData"
    /\ sinks[s].pc = "deferred"
    /\ \E ok \in BOOLEAN :
        sinks' = [sinks EXCEPT ![s] =
                    [@ EXCEPT !.pc = "closed",
                              !.file = IF ok THEN "closed" ELSE "closeerr"]]
    /\ UNCHANGED <<sinkFrame, got>>

SinkNext ==
    \/ \E s \in Sinks : FileWriter(s)
    \/ \E s \in Sinks : IOControllerWrite(s)
    \/ \E s \in Sinks : IOControllerCloseCallbacks(s)
    \/ \E s \in Sinks : IOControllerCloseFile(s)
    \/ \E s \in Sinks : SaveDataCopy(s)
    \/ \E s \in Sinks : SaveDataNotify(s)
    \/ \E s \in Sinks : SaveDataClose(s)
    \/ MainSelectGot
    \/ MainOnPath

SpecSink == SinkInit /\ [][SinkNext]_vars

\* ---- ZipDownloads ----

\* Every variable of Download's goroutines.
downloadVars == <<inVars, mainVars, spVars, wkVars, interrupt, got, limiter,
                  ec, wg, sent, firstErr, signals, intrActive>>

\* strings.TrimPrefix
TrimPrefix(str, prefix) ==
    IF Len(prefix) <= Len(str) /\ SubSeq(str, 1, Len(prefix)) = prefix
    THEN SubSeq(str, Len(prefix) + 1, Len(str))
    ELSE str

\* strings.Split: the pieces of str between the occurrences of sep.
RECURSIVE Split(_, _)
Split(str, sep) ==
    IF \A i \in 1 .. Len(str) : str[i] # sep
    THEN <<str>>
    ELSE LET k == CHOOSE i \in 1 .. Len(str) :
                    str[i] = sep /\ \A j \in 1 .. (i - 1) : str[j] # sep
         IN <<SubSeq(str, 1, k - 1)>> \o Split(SubSeq(str, k + 1, Len(str)), sep)

\* strings.Join
RECURSIVE StringsJoin(_, _)
StringsJoin(elems, sep) ==
    IF Len(elems) = 0 THEN <<>>
    ELSE IF Len(elems) = 1 THEN elems[1]
    ELSE elems[1] \o <<sep>> \o StringsJoin(Tail(elems), sep)

NonEmpty(str) == Len(str) > 0

\* filepath.Clean on a relative path without "." and ".." elements: repeated
\* and trailing separators are dropped.
Clean(str) == StringsJoin(SelectSeq(Split(str, Sep), NonEmpty), Sep)

\* filepath.Join: the non-empty elements joined by the separator, cleaned.
FilepathJoin(elems) == Clean(StringsJoin(SelectSeq(elems, NonEmpty), Sep))

\* Values of the --directory flag: with and without a trailing separator.
Directories == {<<"d", Sep>>, <<"d">>}

\* Relative destinations the thunks pass to the reporter (a parent directory
\* and a file name, as assertValidPath demands).
Destinations == {<<seg, Sep, name>> : seg \in {"a", "b"}, name \in {"f", "g"}}

\* Lists of distinct destinations.
DestinationLists ==
    UNION {{l \in [1 .. n -> Destinations] :
                \A i, j \in 1 .. n : l[i] = l[j] => i = j} : n \in 0 .. MaxArtifacts}

\* Download after its loop ended without error (line 454), W = 1, one thunk,
\* dm.paths = ps.
PostLoop(ps) ==
    /\ W = 1
    /\ nThunks = 1
    /\ mainPc = "post"
    /\ cur = Nil
    /\ interrupt = 0
    /\ got = <<>>
    /\ paths = ps
    /\ spPc = "exited"
    /\ doneVal = Nil
    /\ next = FALSE
    /\ genCalls = 2
    /\ dlCount = 1
    /\ limiter = 0
    /\ ec = <<>>
    /\ wg = 0
    /\ wpc = [n \in Workers |-> IF n = 0 THEN "done" ELSE "none"]
    /\ wdst = [n \in Workers |-> 0]
    /\ pdone = [n \in Workers |-> IF n = 0 THEN 1 ELSE 0]
    /\ cleanupLog = <<>>
    /\ retErr = Nil
    /\ retPaths = <<>>
    /\ sent = ps
    /\ firstErr = Nil
    /\ signals = 0
    /\ intrActive = FALSE
    /\ exitVia = "-"
    /\ handed = <<0>>

\* Entry of ZipDownloads(deleteAfter); dsts are the destinations the sinks
\* were opened with (history).
ZipStart(dl, del) ==
    [pc |-> "start", dsts |-> dl, deleteAfter |-> del,
     files |-> <<>>, todo |-> {}, dir |-> <<>>, left |-> <<>>, entries |-> <<>>,
     created |-> {}, archives |-> {}, removed |-> {}, res |-> <<>>,
     err |-> Nil, failed |-> {}]

\* dm.paths holds filepath.Join(dr.dstdir, dst) for every sink (lines 118,
\* 194) and dr.dstdir is dm.directory (line 392).
ZipInit ==
    /\ directory \in Directories
    /\ \E dl \in DestinationLists, del \in BOOLEAN :
        /\ PostLoop([i \in 1 .. Len(dl) |-> FilepathJoin(<<directory, dl[i]>>)])
        /\ zip = ZipStart(dl, del)
    /\ SinkIdle
    /\ BookWalkerIdle
    /\ BinbIdle
    /\ RestIdle

\* line 489
SplitPath(file) == Split(TrimPrefix(file, directory), Sep)

\* lines 486-492: files[topdir] = the paths below it, in the order of dm.paths.
Files ==
    LET topdirs == {SplitPath(paths[i])[1] : i \in 1 .. Len(paths)}
        below(d) ==
            LET idx == SelectSeq([i \in 1 .. Len(paths) |-> i],
                                 LAMBDA i : SplitPath(paths[i])[1] = d)
            IN [k \in 1 .. Len(idx) |->
                    StringsJoin(Tail(SplitPath(paths[idx[k]])), Sep)]
    IN [d \in topdirs |-> below(d)]

\* line 497
ArchivePath(dir) == FilepathJoin(<<directory, dir \o <<".zip">>>>)

\* return nil, err
ZipFail(what) ==
    [zip EXCEPT !.pc = "returned", !.err = ErrZip, !.res = <<>>,
                !.failed = @ \cup {what}]

zipFrame == <<downloadVars, sinkVars, directory, bwVars, binbVars, restVars>>

\* lines 486-495
ZipPartition ==
    /\ zip.pc = "start"
    /\ zip' = [zip EXCEPT !.pc = "loop", !.files = Files, !.todo = DOMAIN Files]
    /\ UNCHANGED zipFrame

\* lines 496-505: the next top-level directory (map order is arbitrary), the
\* archive file is created or os.Create fails.
ZipCreate ==
    /\ zip.pc = "loop"
    /\ \E d \in zip.todo, ok \in BOOLEAN :
        zip' = IF ok
               THEN [zip EXCEPT !.pc = "entries", !.dir = d, !.left = zip.files[d],
                                !.entries = <<>>, !.todo = @ \ {d},
                                !.res = Append(@, d),
                                !.created = @ \cup {ArchivePath(d)}]
               ELSE ZipFail("create")
    /\ UNCHANGED zipFrame

\* lines 506-523: one file of the directory.  CreateHeader, os.Open and
\* fr.Close return their error; the result of io.Copy (line 519) is dropped.
ZipEntry ==
    /\ zip.pc = "entries"
    /\ zip.left # <<>>
    /\ \E outcome \in {"ok", "header", "open", "copy", "close"} :
        zip' = IF outcome \in {"header", "open", "close"}
               THEN ZipFail(outcome)
               ELSE [zip EXCEPT !.entries = Append(@, Head(zip.left)),
                                !.left = Tail(@),
                                !.failed = IF outcome = "copy"
                                           THEN @ \cup {"copy"} ELSE @]
    /\ UNCHANGED zipFrame

\* lines 525-530: zipf.Close and outf.Close.
ZipCloseArchive ==
    /\ zip.pc = "entries"
    /\ zip.left = <<>>
    /\ \E ok \in BOOLEAN :
        zip' = IF ok
               THEN [zip EXCEPT !.pc = "loop",
                                !.archives = @ \cup {[path |-> ArchivePath(zip.dir),
                                                      entries |-> zip.entries]}]
               ELSE ZipFail("archive")
    /\ UNCHANGED zipFrame

\* line 533: every directory is zipped.
ZipLoopEnd ==
    /\ zip.pc = "loop"
    /\ zip.todo = {}
    /\ zip' = IF zip.deleteAfter
              THEN [zip EXCEPT !.pc = "delete", !.todo = DOMAIN zip.files]
              ELSE [zip EXCEPT !.pc = "returned"]
    /\ UNCHANGED zipFrame

\* lines 534-540: os.RemoveAll of one source directory.
ZipRemove ==
    /\ zip.pc = "delete"
    /\ \E d \in zip.todo, ok \in BOOLEAN :
        zip' = IF ok
               THEN [zip EXCEPT !.todo = @ \ {d},
                                !.removed = @ \cup {FilepathJoin(<<directory, d>>)}]
               ELSE ZipFail("remove")
    /\ UNCHANGED zipFrame

\* line 543
ZipReturn ==
    /\ zip.pc = "delete"
    /\ zip.todo = {}
    /\ zip' = [zip EXCEPT !.pc = "returned"]
    /\ UNCHANGED zipFrame

ZipNext ==
    \/ ZipPartition
    \/ ZipCreate
    \/ ZipEntry
    \/ ZipCloseArchive
    \/ ZipLoopEnd
    \/ ZipRemove
    \/ ZipReturn

SpecZip == ZipInit /\ [][ZipNext]_vars

\* ---- BookWalker descrambler ----

Abs(x) == IF x < 0 THEN -x ELSE x

\* Go's % on ints: truncated division, the sign of the dividend (b # 0; a
\* zero divisor is a run-time panic, see generatePanics).
GoMod(a, b) == IF a < 0 THEN -(Abs(a) % Abs(b)) ELSE a % Abs(b)

\* lines 66-72 (i) and 74-80 (n): the tile index of the partial column / row.
borderIndex(rects, factor, pattern) ==
    LET i0 == rects - GoMod(factor * pattern, rects)
        i1 == IF GoMod(i0, rects) = 0 THEN GoMod(rects - jsc, rects) ELSE i0
    IN IF i1 = 0 THEN rects - 1 ELSE i1

\* lines 167-174
calcPositionWithRest(coordX, i, remainderX, rectangleSize) ==
    LET res == coordX * rectangleSize
    IN IF res >= i THEN res + remainderX ELSE res

\* lines 176-178
calcXCoordinateXRest(index, rectangleCountX, pattern) ==
    GoMod(index + jsa * pattern, rectangleCountX)

\* lines 181-196: the divisor chosen by calcYCoordinateXRest.
moduloYXRest(coordX, unk1, unk2, rectangleCountY, pattern) ==
    LET l == (pattern % 2 = 1)
        k == IF coordX < unk1 THEN l ELSE ~l
    IN IF k THEN unk2 ELSE rectangleCountY - unk2

\* lines 180-199
calcYCoordinateXRest(coordX, unk1, unk2, rectangleCountY, pattern) ==
    LET l == (pattern % 2 = 1)
        k == IF coordX < unk1 THEN l ELSE ~l
        extra == IF k THEN 0 ELSE unk2
    IN GoMod(coordX + pattern * jsf + unk2 * jsg,
             moduloYXRest(coordX, unk1, unk2, rectangleCountY, pattern)) + extra

\* lines 202-217: the divisor chosen by calcXCoordinateYRest.
moduloXYRest(coordY, unk1, unk2, rectangleCountX, pattern) ==
    LET l == (pattern % 2 = 1)
        k == IF coordY < unk2 THEN l ELSE ~l
    IN IF k THEN rectangleCountX - unk1 ELSE unk1

\* lines 201-220
calcXCoordinateYRest(coordY, unk1, unk2, rectangleCountX, pattern) ==
    LET l == (pattern % 2 = 1)
        k == IF coordY < unk2 THEN l ELSE ~l
        extra == IF k THEN unk1 ELSE 0
    IN GoMod(coordY + pattern * jsh + unk1 + jsi,
             moduloXYRest(coordY, unk1, unk2, rectangleCountX, pattern)) + extra

\* lines 222-224
calcYCoordinateYRest(index, rectangleCountY, pattern) ==
    GoMod(index + jsb * pattern, rectangleCountY)

\* generateRectangles divides by zero (an integer-division panic) in one of
\* the helper calls it makes.
generatePanics(srcWidth, srcHeight, pattern) ==
    LET rectsX == srcWidth \div rectangleWidth
        rectsY == srcHeight \div rectangleHeight
        remainderX == srcWidth % rectangleWidth
        remainderY == srcHeight % rectangleHeight
        i == borderIndex(rectsX, jsd, pattern)
        n == borderIndex(rectsY, jse, pattern)
        zeroYX(u) == moduloYXRest(u, i, n, rectsY, pattern) = 0
        zeroXY(v) == moduloXYRest(v, i, n, rectsX, pattern) = 0
    IN \/ /\ remainderY > 0
          /\ \E s \in 0 .. (rectsX - 1) :
                zeroYX(calcXCoordinateXRest(s, rectsX, pattern))
       \/ /\ remainderX > 0
          /\ \E t \in 0 .. (rectsY - 1) :
                zeroXY(calcYCoordinateYRest(t, rectsY, pattern))
       \/ \E s \in 0 .. (rectsX - 1), t \in 0 .. (rectsY - 1) :
            LET u == GoMod(s + pattern * jsj + jsl * t, rectsX)
                v == GoMod(t + pattern * jsk + jsm * u, rectsY)
            IN zeroXY(v) \/ zeroYX(u)

\* lines 59-163
generateRectangles(srcWidth, srcHeight, pattern) ==
    LET rectsX == srcWidth \div rectangleWidth
        rectsY == srcHeight \div rectangleHeight
        remainderX == srcWidth % rectangleWidth
        remainderY == srcHeight % rectangleHeight
        i == borderIndex(rectsX, jsd, pattern)
        n == borderIndex(rectsY, jse, pattern)
        corner ==
            IF remainderX > 0 /\ remainderY > 0
            THEN <<[dst |-> <<i * rectangleWidth, n * rectangleHeight>>,
                    src |-> <<i * rectangleWidth, n * rectangleHeight>>,
                    width |-> remainderX, height |-> remainderY]>>
            ELSE <<>>
        rowRect(s) ==
            LET u == calcXCoordinateXRest(s, rectsX, pattern)
                v == calcYCoordinateXRest(u, i, n, rectsY, pattern)
            IN [dst |-> <<calcPositionWithRest(s, i, remainderX, rectangleWidth),
                          n * rectangleHeight>>,
                src |-> <<calcPositionWithRest(u, i, remainderX, rectangleWidth),
                          v * rectangleHeight>>,
                width |-> rectangleWidth, height |-> remainderY]
        row == IF remainderY > 0
               THEN [k \in 1 .. rectsX |-> rowRect(k - 1)]
               ELSE <<>>
        colRect(t) ==
            LET v == calcYCoordinateYRest(t, rectsY, pattern)
                u == calcXCoordinateYRest(v, i, n, rectsX, pattern)
            IN [dst |-> <<i * rectangleWidth,
                          calcPositionWithRest(t, n, remainderY, rectangleHeight)>>,
                src |-> <<u * rectangleWidth,
                          calcPositionWithRest(v, n, remainderY, rectangleHeight)>>,
                width |-> remainderX, height |-> rectangleHeight]
        col == IF remainderX > 0
               THEN [k \in 1 .. rectsY |-> colRect(k - 1)]
               ELSE <<>>
        tile(s, t) ==
            LET u == GoMod(s + pattern * jsj + jsl * t, rectsX)
                v == GoMod(t + pattern * jsk + jsm * u, rectsY)
                w == IF u >= calcXCoordinateYRest(v, i, n, rectsX, pattern)
                     THEN remainderX ELSE 0
                x == IF v >= calcYCoordinateXRest(u, i, n, rectsY, pattern)
                     THEN remainderY ELSE 0
            IN [dst |-> <<s * rectangleWidth + (IF s >= i THEN remainderX ELSE 0),
                          t * rectangleHeight + (IF t >= n THEN remainderY ELSE 0)>>,
                src |-> <<u * rectangleWidth + w, v * rectangleHeight + x>>,
                width |-> rectangleWidth, height |-> rectangleHeight]
        tiles == [k \in 1 .. (rectsX * rectsY) |->
                    tile((k - 1) \div rectsY, (k - 1) % rectsY)]
    IN corner \o row \o col \o tiles

\* Image sizes: 1 .. MaxTiles whole tiles per axis plus a remainder.
Widths ==
    {t * rectangleWidth + r : t \in 1 .. MaxTiles, r \in 0 .. MaxRemainder}
Heights ==
    {t * rectangleHeight + r : t \in 1 .. MaxTiles, r \in 0 .. MaxRemainder}

BookWalkerInit ==
    /\ DownloadIdle
    /\ SinkIdle
    /\ ZipIdle
    /\ BookWalkerIdle
    /\ BinbIdle
    /\ RestIdle

bwFrame == <<downloadVars, sinkVars, zipVars, binbVars, restVars>>

\* Descramble, lines 233-236: image.Decode fails.
DescrambleDecodeError ==
    /\ call.n < MaxCalls
    /\ call' = [n |-> call.n + 1, result |-> "error"]
    /\ UNCHANGED <<bwFrame, ds>>

\* Descramble, lines 238-274, for an image of srcWidth x srcHeight whose file
\* name has the given pattern (getPattern, lines 46-53).  The collection of
\* the pattern is reused when the source size is the one it was made for;
\* the output image is allocated with the collection's dstWidth, dstHeight.
\* A panic of generateRectangles leaves ds.m locked (line 251, no defer).
Descramble(pattern, srcWidth, srcHeight, dummyWidth, dummyHeight) ==
    /\ call.n < MaxCalls
    /\ ~ds.locked
    /\ LET col == ds.rectangleCollections[pattern]
           args == [n |-> call.n + 1, pattern |-> pattern,
                    srcWidth |-> srcWidth, srcHeight |-> srcHeight,
                    dummyWidth |-> dummyWidth, dummyHeight |-> dummyHeight,
                    result |-> "-", width |-> -1, height |-> -1]
       IN IF col # NoCollection /\ srcWidth = col.srcWidth /\ srcHeight = col.srcHeight
          THEN /\ call' = [args EXCEPT !.result = "image",
                                       !.width = col.dstWidth,
                                       !.height = col.dstHeight]
               /\ UNCHANGED ds
          ELSE IF generatePanics(srcWidth, srcHeight, pattern)
          THEN /\ call' = [args EXCEPT !.result = "panic"]
               /\ ds' = [ds EXCEPT !.locked = TRUE]
          ELSE /\ ds' = [ds EXCEPT !.rectangleCollections[pattern] =
                            [rectangles |-> generateRectangles(srcWidth, srcHeight, pattern),
                             srcWidth |-> srcWidth, srcHeight |-> srcHeight,
                             dstWidth |-> srcWidth - dummyWidth,
                             dstHeight |-> srcHeight - dummyHeight]]
               /\ call' = [args EXCEPT !.result = "image",
                                       !.width = srcWidth - dummyWidth,
                                       !.height = srcHeight - dummyHeight]
    /\ UNCHANGED bwFrame

BookWalkerNext ==
    \/ DescrambleDecodeError
    \/ \E pattern \in 1 .. patternCount, srcWidth \in Widths, srcHeight \in Heights,
          dummyWidth \in 0 .. MaxDummy, dummyHeight \in 0 .. MaxDummy :
            Descramble(pattern, srcWidth, srcHeight, dummyWidth, dummyHeight)

SpecBookWalker == BookWalkerInit /\ [][BookWalkerNext]_vars

\* ---- BinB: NewDescrambler on Type-1 keys ----

DigitChars == <<"0", "1", "2", "3", "4", "5", "6", "7", "8", "9">>
Digits == {DigitChars[k] : k \in 1 .. Len(DigitChars)}

\* The characters of a Type-1 payload, [-_0-9A-Za-z] (one letter stands for
\* the letters).
PayloadChars == Digits \cup {"-", "_", "A"}

\* strconv.Itoa for n >= 0.
RECURSIVE Itoa(_)
Itoa(n) ==
    IF n < 10 THEN <<DigitChars[n + 1]>>
    ELSE Itoa(n \div 10) \o <<DigitChars[(n % 10) + 1]>>

\* strconv.Atoi on a non-empty string of digits (no overflow at these sizes).
RECURSIVE Atoi(_)
Atoi(str) ==
    LET last == CHOOSE d \in 0 .. 9 : DigitChars[d + 1] = str[Len(str)]
    IN IF Len(str) = 1 THEN last
       ELSE 10 * Atoi(SubSeq(str, 1, Len(str) - 1)) + last

\* A key table entry that is absent (the table is empty).
NoKey == [absent |-> TRUE]

\* The fields keys are written from: first character, h, v, sign, padding
\* and payload length.
KeyFields ==
    [lead : {"=", "x"}, h : {0, 1, 9}, v : {0, 1, 9}, sign : {"+", "-"},
     padding : {0, 1}, len : 0 .. MaxPayload]

\* The key string <lead>h-v<sign>padding-<payload>.
KeyString(k) ==
    <<k.lead>> \o Itoa(k.h) \o <<"-">> \o Itoa(k.v) \o <<k.sign>>
        \o Itoa(k.padding) \o <<"-">> \o [j \in 1 .. k.len |-> "A"]

Table(k) == IF k = NoKey THEN <<>> ELSE <<KeyString(k)>>

\* The last index of the run of digits of str that starts at from (from - 1
\* when there is none).
RECURSIVE DigitsEnd(_, _)
DigitsEnd(str, from) ==
    IF from <= Len(str) /\ str[from] \in Digits
    THEN DigitsEnd(str, from + 1)
    ELSE from - 1

\* reType1Key.FindStringSubmatch (line 33): the groups <<1, .., 5>> of
\* ^=([0-9]+)-([0-9]+)([-+])([0-9]+)-([-_0-9A-Za-z]+)$, or <<>> for nil.
FindType1Submatch(key) ==
    LET e1 == DigitsEnd(key, 2)
        e2 == DigitsEnd(key, e1 + 2)
        e4 == DigitsEnd(key, e2 + 2)
        payload == SubSeq(key, e4 + 2, Len(key))
    IN IF /\ Len(key) >= 1 /\ key[1] = "="
          /\ e1 >= 2
          /\ e1 + 1 <= Len(key) /\ key[e1 + 1] = "-"
          /\ e2 >= e1 + 2
          /\ e2 + 1 <= Len(key) /\ key[e2 + 1] \in {"-", "+"}
          /\ e4 >= e2 + 2
          /\ e4 + 1 <= Len(key) /\ key[e4 + 1] = "-"
          /\ Len(payload) >= 1
          /\ \A j \in 1 .. Len(payload) : payload[j] \in PayloadChars
       THEN <<SubSeq(key, 2, e1), SubSeq(key, e1 + 2, e2), <<key[e2 + 1]>>,
              SubSeq(key, e2 + 2, e4), payload>>
       ELSE <<>>

\* line 193
DimsTooLarge(h, v) == h > 8 \/ v > 8 \/ h * v > 64

\* processType1, lines 178-213
processType1(ckey, pkey) ==
    LET c == FindType1Submatch(ckey)
        p == FindType1Submatch(pkey)
    IN IF c = <<>> \/ p = <<>> THEN [result |-> "error", err |-> "Invalid type 1 scramble key."]
       ELSE IF c[1] # p[1] \/ c[2] # p[2] \/ c[4] # p[4] \/ c[3] # <<"+">> \/ p[3] # <<"-">>
       THEN [result |-> "error", err |-> "Invalid type 1 scramble key."]
       ELSE LET h == Atoi(c[1])
                v == Atoi(c[2])
                padding == Atoi(c[4])
                target_len == h + v + h * v
            IN IF DimsTooLarge(h, v)
               THEN [result |-> "error", err |-> "Invalid h and v values."]
               ELSE IF Len(c[5]) # target_len \/ Len(p[5]) # target_len
               THEN [result |-> "error", err |-> "Invalid h or v length."]
               ELSE [result |-> "ok", h |-> h, v |-> v, padding |-> padding,
                     src |-> c[5], dst |-> p[5]]

\* NewDescrambler (lines 95-125) with init (lines 127-175) for tables of at
\* most one key; keys that start with a digit (Type 2) are not among the
\* inputs.
NewDescramblerResult(ctbl, ptbl) ==
    IF Len(ctbl) # Len(ptbl)
    THEN [result |-> "error", err |-> "ctbl and ptbl need to be of the same size."]
    ELSE IF Len(ctbl) = 0
    THEN [result |-> "error", err |-> "ctbl cannot be empty."]
    ELSE IF ctbl[1][1] = "=" /\ ptbl[1][1] = "="
    THEN processType1(ctbl[1], ptbl[1])
    ELSE [result |-> "error", err |-> "Unknown key type."]

BinbInit ==
    /\ DownloadIdle
    /\ SinkIdle
    /\ ZipIdle
    /\ BookWalkerIdle
    /\ RestIdle
    /\ \E c \in KeyFields \cup {NoKey},
          p \in {k \in KeyFields : k.lead = "="} \cup {NoKey} :
        /\ pair = [c |-> c, p |-> p]
        /\ Ctbl = Table(c)
        /\ Ptbl = Table(p)
    /\ binb = NoDescrambler

binbFrame == <<downloadVars, sinkVars, zipVars, bwVars, restVars>>

NewDescrambler ==
    /\ binb = NoDescrambler
    /\ binb' = NewDescramblerResult(Ctbl, Ptbl)
    /\ UNCHANGED <<binbFrame, pair, Ctbl, Ptbl>>

BinbNext == NewDescrambler

SpecBinb == BinbInit /\ [][BinbNext]_vars

\* ---- BinB Api.decryptData (scrambling.go, lines 936-962) ----
\* A uint32 is kept as its two 16-bit halves [hi, lo]; every operation
\* wraps at 32 bits as Go's does.
U32(n) == [hi |-> n \div 2^16, lo |-> n % 2^16]

Add32(a, b) ==
    [hi |-> (a.hi + b.hi + (a.lo + b.lo) \div 2^16) % 2^16,
     lo |-> (a.lo + b.lo) % 2^16]

\* a - b is a + (2^32 - b)
Neg32(b) ==
    [hi |-> (2^16 - b.hi - (IF b.lo = 0 THEN 0 ELSE 1)) % 2^16,
     lo |-> (2^16 - b.lo) % 2^16]

\* a << n
RECURSIVE Shl32(_, _)
Shl32(a, n) == IF n = 0 THEN a ELSE Shl32(Add32(a, a), n - 1)

\* x ^ y on 16-bit halves
RECURSIVE Xor16(_, _)
Xor16(x, y) ==
    IF x = 0 THEN y
    ELSE IF y = 0 THEN x
    ELSE ((x + y) % 2) + 2 * Xor16(x \div 2, y \div 2)

\* a % m for a small m
Mod32(a, m) == ((a.hi % m) * (2^16 % m) + a.lo) % m

\* The runes strings are written from: 'A' and U+10FFFF, and the number of
\* bytes of a rune's UTF-8 encoding (range yields byte offsets).
Runes == {65, 1114111}
RuneLen(r) == IF r < 128 THEN 1 ELSE IF r < 2048 THEN 2 ELSE IF r < 65536 THEN 3 ELSE 4

\* Printable ASCII characters of the data: ' ', 'A', '}' and '~'.
Printable == {32, 65, 125, 126}

Strings(chars, n) == UNION {[1 .. m -> chars] : m \in 0 .. n}

\* 0x48200004 with bit 31 set in addition: a feedback constant that leaves
\* the 31-bit range.
feedbackWide == [hi |-> 51232, lo |-> 4]

\* -(key & 1) & 0x48200004 (line 955) is 0x48200004 for an odd key, else 0.
feedback == [hi |-> 18464, lo |-> 4]

\* makeKey (lines 937-950): the loop over the runes of s from byte offset i.
RECURSIVE makeKeyLoop(_, _, _)
makeKeyLoop(s, i, res) ==
    IF s = <<>> THEN res
    ELSE makeKeyLoop(Tail(s), i + RuneLen(Head(s)),
                     Add32(res, Shl32(U32(Head(s)), i % 16)))

\* s := cid + ":" + k; res &= 0x7FFFFFFF; 0x12345678 for a zero res.
makeKey(cid, k) ==
    LET sum == makeKeyLoop(cid \o <<58>> \o k, 0, U32(0))
        res == [hi |-> sum.hi % 2^15, lo |-> sum.lo]
    IN IF res # U32(0) THEN res ELSE U32(305419896)

\* line 955: key = (key >> 1) ^ (-(key & 1) & 0x48200004)
nextKey(key) ==
    LET shifted == [hi |-> key.hi \div 2,
                    lo |-> key.lo \div 2 + (key.hi % 2) * 2^15]
        masked == IF key.lo % 2 = 1 THEN feedback ELSE U32(0)
    IN [hi |-> Xor16(shifted.hi, masked.hi), lo |-> Xor16(shifted.lo, masked.lo)]

\* line 956: byte(((uint32(char) - 0x20 + key) % 0x5E) + 0x20)
decryptByte(char, key) ==
    (Mod32(Add32(Add32(U32(char), Neg32(U32(32))), key), 94) + 32) % 256

DecryptInit ==
    /\ DownloadIdle
    /\ SinkIdle
    /\ ZipIdle
    /\ BookWalkerIdle
    /\ BinbIdle
    /\ special = NoSpecial
    /\ conc = NoConc
    /\ dsc = NoDescramble
    /\ \E cid \in Strings(Runes, MaxCid), k \in Strings(Runes, MaxK),
          data \in Strings(Printable, MaxData) :
        api = [pc |-> "called", Cid |-> cid, K |-> k, data |-> data,
               key |-> U32(0), rest |-> data, buf |-> <<>>]

decryptFrame == <<downloadVars, sinkVars, zipVars, bwVars, binbVars, special,
                  conc, dsc>>

\* line 952: key := makeKey(binb.Cid, binb.K)
DecryptMakeKey ==
    /\ api.pc = "called"
    /\ api' = [api EXCEPT !.pc = "loop", !.key = makeKey(api.Cid, api.K)]
    /\ UNCHANGED decryptFrame

\* lines 954-959: one character of data.
DecryptChar ==
    /\ api.pc = "loop"
    /\ api.rest # <<>>
    /\ LET key == nextKey(api.key)
       IN api' = [api EXCEPT !.key = key, !.rest = Tail(@),
                             !.buf = Append(@, decryptByte(Head(api.rest), key))]
    /\ UNCHANGED decryptFrame

\* line 961
DecryptReturn ==
    /\ api.pc = "loop"
    /\ api.rest = <<>>
    /\ api' = [api EXCEPT !.pc = "returned"]
    /\ UNCHANGED decryptFrame

DecryptNext ==
    \/ DecryptMakeKey
    \/ DecryptChar
    \/ DecryptReturn

SpecDecrypt == DecryptInit /\ [][DecryptNext]_vars

\* ---- Download, lines 296-325: the hidden options of the plugin ----
\* An Option value: its dynamic type, its key (the sigil apart from the rest
\* of the name) and its Value().
ForceZipOption(force) ==
    [type |-> "*ForceZipOption", Key |-> <<"!", "Zip">>, Value |-> force]
MaxWorkersOption(workers) ==
    [type |-> "*MaxWorkersOption", Key |-> <<"!", "Workers">>, Value |-> workers]
StringOption(key, v) == [type |-> "*StringOption", Key |-> key, Value |-> v]

\* GetSpecialOptions: the options whose key starts with "!", by the rest of
\* the key; the map holds the Option itself (res[opt.Key()[1:]] = opt).
GetSpecialOptions(options) ==
    LET hidden == {i \in 1 .. Len(options) :
                       Len(options[i].Key) > 0 /\ options[i].Key[1] = "!"}
        last(k) == CHOOSE i \in hidden :
                       /\ Tail(options[i].Key) = k
                       /\ \A j \in hidden : Tail(options[j].Key) = k => j <= i
    IN [k \in {Tail(options[i].Key) : i \in hidden} |-> options[last(k)]]

\* x.(T): the dynamic type of x is T.
TypeAssertion(x, T) == x.type = T

\* Options() of a plugin: a visible option, then at most one option under
\* each hidden key, well typed or not.
PluginOptions ==
    {<<StringOption(<<"Username">>, "u")>> \o z \o w :
        z \in {<<>>, <<StringOption(<<"!", "Zip">>, "yes")>>}
                  \cup {<<ForceZipOption(b)>> : b \in BOOLEAN},
        w \in {<<>>, <<StringOption(<<"!", "Workers">>, "2")>>}
                  \cup {<<MaxWorkersOption(n)>> : n \in 1 .. MaxWorkers}}

SpecialInit ==
    /\ DownloadIdle
    /\ SinkIdle
    /\ ZipIdle
    /\ BookWalkerIdle
    /\ BinbIdle
    /\ api = NoApi
    /\ conc = NoConc
    /\ dsc = NoDescramble
    /\ \E options \in PluginOptions, maxWorkers \in 1 .. MaxWorkers,
          zipit \in BOOLEAN, override \in BOOLEAN :
        special = [pc |-> "called", options |-> options,
                   maxWorkers |-> maxWorkers, zipit |-> zipit,
                   override |-> override, special |-> <<>>,
                   generator |-> FALSE, cleanup |-> <<>>]

specialFrame == <<downloadVars, sinkVars, zipVars, bwVars, binbVars, api, conc,
                  dsc>>

\* lines 297-303: the deferred recover of a panicking Download.
SpecialPanic(r) ==
    [special EXCEPT !.pc = "panicked", !.cleanup = Append(@, r)]

\* lines 305-306
SpecialGet ==
    /\ special.pc = "called"
    /\ special' =
         IF special.override
         THEN [special EXCEPT !.pc = "generator"]
         ELSE [special EXCEPT !.pc = "zip",
                              !.special = GetSpecialOptions(special.options)]
    /\ UNCHANGED specialFrame

\* lines 307-314: zipit, ok = z.(bool)
SpecialZip ==
    /\ special.pc = "zip"
    /\ special' =
         IF <<"Zip">> \notin DOMAIN special.special
         THEN [special EXCEPT !.pc = "workers"]
         ELSE IF TypeAssertion(special.special[<<"Zip">>], "bool")
         THEN [special EXCEPT !.pc = "workers",
                              !.zipit = special.special[<<"Zip">>].Value]
         ELSE SpecialPanic("ErrInvaidSpecialOptionType")
    /\ UNCHANGED specialFrame

\* lines 315-322: maxWorkers, ok = w.(int)
SpecialWorkers ==
    /\ special.pc = "workers"
    /\ special' =
         IF <<"Workers">> \notin DOMAIN special.special
         THEN [special EXCEPT !.pc = "generator"]
         ELSE IF TypeAssertion(special.special[<<"Workers">>], "int")
         THEN [special EXCEPT !.pc = "generator",
                              !.maxWorkers = special.special[<<"Workers">>].Value]
         ELSE SpecialPanic("ErrInvaidSpecialOptionType")
    /\ UNCHANGED specialFrame

\* line 326: dm.plugin.DownloadGenerator(url)
SpecialGenerator ==
    /\ special.pc = "generator"
    /\ special' = [special EXCEPT !.pc = "running", !.generator = TRUE]
    /\ UNCHANGED specialFrame

SpecialNext ==
    \/ SpecialGet
    \/ SpecialZip
    \/ SpecialWorkers
    \/ SpecialGenerator

SpecSpecial == SpecialInit /\ [][SpecialNext]_vars

\* ---- concurrent Descramble calls on one cache cell ----
\* Worker goroutines call Descramble of the plugin's one descrambler
\* (booklive.go line 131, bookwalker.go line 161).  A collection is kept by
\* the source size it records; NilCol is the empty cell.
NilCol == [srcWidth |-> -1, srcHeight |-> -1]
Col(size) == [srcWidth |-> size[1], srcHeight |-> size[2]]

ConcSizes ==
    {<<t * rectangleWidth + r, 2 * rectangleHeight>> :
        t \in 2 .. MaxTiles, r \in 0 .. MaxRemainder}
ConcCalls == 1 .. MaxCalls

ConcInit ==
    /\ DownloadIdle
    /\ SinkIdle
    /\ ZipIdle
    /\ BookWalkerIdle
    /\ BinbIdle
    /\ api = NoApi
    /\ special = NoSpecial
    /\ dsc = NoDescramble
    /\ \E kind \in {"binb", "bookwalker"}, pattern \in 1 .. patternCount,
          sizes \in [ConcCalls -> ConcSizes] :
        conc = [kind |-> kind, pattern |-> pattern, cell |-> NilCol,
                locked |-> FALSE,
                calls |-> [i \in ConcCalls |->
                    [pc |-> "decoded", size |-> sizes[i], col |-> NilCol,
                     dst |-> NilCol, used |-> NilCol]]]

concFrame == <<downloadVars, sinkVars, zipVars, bwVars, binbVars, api, special,
               dsc>>

\* the cell does not hold a collection for the size of call i
ConcMiss(col, i) ==
    \/ col = NilCol
    \/ conc.calls[i].size[1] # col.srcWidth
    \/ conc.calls[i].size[2] # col.srcHeight

\* binb Descramble, lines 451-452: col points at the cell; the cell is read.
BinbCheck(i) ==
    /\ conc.kind = "binb"
    /\ conc.calls[i].pc = "decoded"
    /\ conc' = [conc EXCEPT !.calls[i].pc =
                    IF ConcMiss(conc.cell, i) THEN "compute" ELSE "alloc"]
    /\ UNCHANGED concFrame

\* lines 453-462: *col = the collection computed for the call's size.
BinbStore(i) ==
    /\ conc.kind = "binb"
    /\ conc.calls[i].pc = "compute"
    /\ conc' = [conc EXCEPT !.cell = Col(conc.calls[i].size),
                            !.calls[i].pc = "alloc"]
    /\ UNCHANGED concFrame

\* line 469: the cell is read for dstWidth, dstHeight.
BinbAlloc(i) ==
    /\ conc.kind = "binb"
    /\ conc.calls[i].pc = "alloc"
    /\ conc' = [conc EXCEPT !.calls[i].dst = conc.cell,
                            !.calls[i].pc = "blit"]
    /\ UNCHANGED concFrame

\* lines 470-476: the cell is read for the rectangles of the blit.
BinbBlit(i) ==
    /\ conc.kind = "binb"
    /\ conc.calls[i].pc = "blit"
    /\ conc' = [conc EXCEPT !.calls[i].used = conc.cell,
                            !.calls[i].pc = "returned"]
    /\ UNCHANGED concFrame

\* bookwalker Descramble, line 251: ds.m.Lock()
BookWalkerLock(i) ==
    /\ conc.kind = "bookwalker"
    /\ conc.calls[i].pc = "decoded"
    /\ ~conc.locked
    /\ conc' = [conc EXCEPT !.locked = TRUE, !.calls[i].pc = "locked"]
    /\ UNCHANGED concFrame

\* lines 252-264: the collection of the cell, or a new one stored in it, is
\* kept in the local col; ds.m.Unlock().  A panic of generateRectangles
\* ends the call with the mutex held.
BookWalkerCache(i) ==
    /\ conc.kind = "bookwalker"
    /\ conc.calls[i].pc = "locked"
    /\ conc' =
         IF ~ConcMiss(conc.cell, i)
         THEN [conc EXCEPT !.locked = FALSE, !.calls[i].col = conc.cell,
                           !.calls[i].pc = "blit"]
         ELSE IF generatePanics(conc.calls[i].size[1], conc.calls[i].size[2],
                                conc.pattern)
         THEN [conc EXCEPT !.calls[i].pc = "panicked"]
         ELSE [conc EXCEPT !.locked = FALSE,
                           !.cell = Col(conc.calls[i].size),
                           !.calls[i].col = Col(conc.calls[i].size),
                           !.calls[i].pc = "blit"]
    /\ UNCHANGED concFrame

\* lines 265-273: the image is allocated and blitted from the local col.
BookWalkerBlit(i) ==
    /\ conc.kind = "bookwalker"
    /\ conc.calls[i].pc = "blit"
    /\ conc' = [conc EXCEPT !.calls[i].dst = conc.calls[i].col,
                            !.calls[i].used = conc.calls[i].col,
                            !.calls[i].pc = "returned"]
    /\ UNCHANGED concFrame

ConcNext ==
    \E i \in ConcCalls :
        \/ BinbCheck(i)
        \/ BinbStore(i)
        \/ BinbAlloc(i)
        \/ BinbBlit(i)
        \/ BookWalkerLock(i)
        \/ BookWalkerCache(i)
        \/ BookWalkerBlit(i)

SpecConc == ConcInit /\ [][ConcNext]_vars

\* ---- binb Descramble of one image: cpIndex and rectanglesType1 ----
\* tnpConstants (lines 36-44) on the payload characters in use: 'A'.. map to
\* 0.. in order.
tnpAlphabet == <<"A", "B", "C", "D">>
tnpConstants(ch) == (CHOOSE i \in 1 .. Len(tnpAlphabet) : tnpAlphabet[i] = ch) - 1

\* tnp (lines 483-499): the three tables of a payload, indexed from 0.
tnp(data, h, v) ==
    [t |-> [i \in 0 .. h - 1 |-> tnpConstants(data[i + 1])],
     n |-> [i \in 0 .. v - 1 |-> tnpConstants(data[h + i + 1])],
     p |-> [i \in 0 .. h * v - 1 |-> tnpConstants(data[h + v + i + 1])]]

\* line 288: the image is large enough for the padding to be cut off.
PaddingApplies(h, v, padding, srcWidth, srcHeight) ==
    LET x == h * 2 * padding
        y == v * 2 * padding
    IN /\ srcWidth >= 64 + x
       /\ srcHeight >= 64 + y
       /\ srcWidth * srcHeight >= (320 + x) * (320 + y)

\* rectanglesType1 (lines 278-363) for the rows cData, pData of ds.data
rectanglesType1(cData, pData, srcWidth, srcHeight) ==
    LET h == cData.h
        v == pData.v
        padding == cData.padding
        applies == PaddingApplies(h, v, padding, srcWidth, srcHeight)
        width == IF applies THEN srcWidth - h * 2 * padding ELSE srcWidth
        height == IF applies THEN srcHeight - v * 2 * padding ELSE srcHeight
        src == tnp(cData.src, h, v)
        dst == tnp(pData.dst, h, v)
        p == [i \in 0 .. h * v - 1 |-> src.p[dst.p[i]]]
        sliceWidth == (width + h - 1) \div h
        sliceHeight == (height + v - 1) \div v
        lastSliceWidth == width - (h - 1) * sliceWidth
        lastSliceHeight == height - (v - 1) * sliceHeight
        rect(i) ==
            LET dstColumn == i % h
                dstRow == i \div h
                dstX == padding + dstColumn * (sliceWidth + 2 * padding)
                            + (IF dst.n[dstRow] < dstColumn
                               THEN lastSliceWidth - sliceWidth ELSE 0)
                dstY == padding + dstRow * (sliceHeight + 2 * padding)
                            + (IF dst.t[dstColumn] < dstRow
                               THEN lastSliceHeight - sliceHeight ELSE 0)
                srcColumn == p[i] % h
                srcRow == p[i] \div h
                srcX == srcColumn * sliceWidth
                            + (IF src.n[srcRow] < srcColumn
                               THEN lastSliceWidth - sliceWidth ELSE 0)
                srcY == srcRow * sliceHeight
                            + (IF src.t[srcColumn] < srcRow
                               THEN lastSliceHeight - sliceHeight ELSE 0)
            IN [dst |-> <<srcX, srcY>>, src |-> <<dstX, dstY>>,
                width |-> IF dst.n[dstRow] = dstColumn
                          THEN lastSliceWidth ELSE sliceWidth,
                height |-> IF dst.t[dstColumn] = dstRow
                           THEN lastSliceHeight ELSE sliceHeight]
    IN [srcWidth |-> srcWidth, srcHeight |-> srcHeight,
        dstWidth |-> width, dstHeight |-> height,
        rectangles |-> [j \in 1 .. h * v |-> rect(j - 1)]]

\* cpIndex (lines 501-515): the sums over the runes at even and odd byte
\* offsets, from offset i on.
RECURSIVE cpSums(_, _, _, _)
cpSums(filename, i, c, p) ==
    IF filename = <<>> THEN <<c, p>>
    ELSE cpSums(Tail(filename), i + RuneLen(Head(filename)),
                IF i % 2 = 0 THEN c ELSE c + Head(filename),
                IF i % 2 = 0 THEN p + Head(filename) ELSE p)

cpIndex(filename) ==
    LET sums == cpSums(filename, 0, 0, 0)
    IN <<sums[1] % 8, sums[2] % 8>>

\* The rows processType1 makes of key pairs NewDescrambler accepts: payloads
\* of h + v + h*v characters (t and n constant, then a permutation p).
Type1Payloads(h, v) ==
    LET letters(f, m) == [i \in 1 .. m |-> tnpAlphabet[f[i] + 1]]
        ts == {[i \in 1 .. h |-> a] : a \in {0, v - 1}}
        ns == {[i \in 1 .. v |-> a] : a \in {0, h - 1}}
        ps == {[i \in 1 .. h * v |-> i - 1], [i \in 1 .. h * v |-> h * v - i]}
    IN {letters(t, h) \o letters(n, v) \o letters(p, h * v) :
            t \in ts, n \in ns, p \in ps}

Type1Data ==
    UNION {[h : {h}, v : {v}, padding : 0 .. MaxPadding,
            src : Type1Payloads(h, v),
            dst : {d \in Type1Payloads(h, v) : d[1] = "A"}] :
               h \in 1 .. 2, v \in 1 .. 2}

\* File names over '0', '1' and U+00E9; image sizes around the thresholds.
FileNames == Strings({48, 49, 233}, MaxName)
ImageSizes == {<<65, 400>>, <<100, 100>>, <<400, 400>>}

\* A descrambler whose tables hold the same accepted pair in every row, and
\* a decoded image.
DescrambleInit ==
    /\ DownloadIdle
    /\ SinkIdle
    /\ ZipIdle
    /\ BookWalkerIdle
    /\ BinbIdle
    /\ api = NoApi
    /\ special = NoSpecial
    /\ conc = NoConc
    /\ \E d \in Type1Data, rows \in 1 .. MaxRows, filename \in FileNames,
          size \in ImageSizes :
        dsc = [pc |-> "decoded", data |-> [r \in 1 .. rows |-> d],
               filename |-> filename, srcWidth |-> size[1],
               srcHeight |-> size[2], c |-> -1, p |-> -1, col |-> NilCol]

descrambleFrame == <<downloadVars, sinkVars, zipVars, bwVars, binbVars, api,
                     special, conc>>

\* Descramble, lines 441 and 451: cpIndex, then the cell
\* ds.rectangleCollections[c][p] of the len(ctbl) x len(ptbl) cache (lines
\* 112-116); an index past the last row panics.
DescrambleCell ==
    /\ dsc.pc = "decoded"
    /\ LET cp == cpIndex(dsc.filename)
       IN dsc' = [dsc EXCEPT !.c = cp[1], !.p = cp[2],
                             !.pc = IF cp[1] >= Len(dsc.data) \/ cp[2] >= Len(dsc.data)
                                    THEN "index out of range"
                                    ELSE "cell"]
    /\ UNCHANGED descrambleFrame

\* lines 452-478: the cell is empty, the collection is derived, stored and
\* used for the blit.
DescrambleType1 ==
    /\ dsc.pc = "cell"
    /\ dsc' = [dsc EXCEPT !.pc = "returned",
                          !.col = rectanglesType1(dsc.data[dsc.c + 1],
                                                  dsc.data[dsc.p + 1],
                                                  dsc.srcWidth, dsc.srcHeight)]
    /\ UNCHANGED descrambleFrame

DescrambleNext ==
    \/ DescrambleCell
    \/ DescrambleType1

SpecDescramble == DescrambleInit /\ [][DescrambleNext]_vars

\* ---- claims ----

\* C1: under every interleaving, the number of thunks that have been started
\* and have not yet returned never exceeds the worker cap W.
WorkerBound == Cardinality(Running) <= W

\* C1 witness: W thunks are running and the spawner holds a further thunk
\* that it cannot launch.
WorkerBoundWitness ==
    /\ Cardinality(Running) = W
    /\ limiter = W
    /\ spPc = "loop"
    /\ next

\* C2: on every exit path of Download plugin.Cleanup has been called exactly
\* once, and it is never called twice.
CleanupExactlyOnce ==
    /\ Len(cleanupLog) <= 1
    /\ Exited => Len(cleanupLog) = 1

\* Download returned an error or panicked.
RunFailed == exitVia \in {"interrupt", "done", "zip", "panic"}

\* C3 as stated: Cleanup receives nil iff the run produced at least one saved
\* artifact and no error occurred.
CleanupNilIffArtifact ==
    Exited => ((cleanupLog[1] = Nil) <=> (sent # <<>> /\ ~RunFailed))

\* Every thunk of the generator was launched and returned nil.
AllThunksOk ==
    /\ ~next
    /\ firstErr = Nil
    /\ \A n \in Workers : wpc[n] \in {"none", "done"}

\* C3 as amended: Cleanup receives nil iff the generator yielded at least one
\* thunk, every thunk returned nil, no interrupt was taken, packaging did not
\* fail and Download did not panic before the loop; no saved file is needed.
CleanupNilIffThunksOk ==
    /\ \A i \in 2 .. Len(cleanupLog) : cleanupLog[i] # Nil
    /\ Exited =>
        ((cleanupLog[1] = Nil) <=>
            (dlCount >= 1 /\ AllThunksOk /\ exitVia \notin {"interrupt", "zip", "panic"}))

\* C3 witness: a run whose thunks all returned nil without saving a file
\* ended with Cleanup(nil).
CleanupNilWitness ==
    /\ mainPc = "returned"
    /\ cleanupLog = <<Nil>>
    /\ dlCount = 2
    /\ sent = <<>>

\* C4: when Download returns without error, the returned list holds every
\* path a sink reported as saved.
NoSavedPathLost ==
    (mainPc = "returned" /\ retErr = Nil) => retPaths = sent

\* C5: an interrupt delivered while the main loop is running and a worker is
\* active makes Download return ErrInterrupted with no artifact list, after
\* Cleanup(ErrInterrupted).
InterruptWins ==
    (mainPc = "returned" /\ intrActive) =>
        /\ retErr = ErrInterrupted
        /\ retPaths = <<>>
        /\ cleanupLog = <<ErrInterrupted>>

\* C6: at the moment Download returns because of an interrupt or a worker
\* error, no thunk is still running.
WorkersAwaited ==
    [][(mainPc # "returned" /\ mainPc' = "returned" /\ retErr' # Nil)
         => Running' = {}]_vars

\* C7: after Download has returned on an interrupt or error, no worker is
\* blocked for ever on its saved-path notification (got is full and nothing
\* receives from it any more).
NoWorkerStuck ==
    ~(/\ mainPc = "returned"
      /\ retErr # Nil
      /\ Len(got) = W
      /\ \E n \in Workers : wpc[n] = "save")

\* C8: once a worker's error is on the error channel, the spawner launches no
\* further worker.
NoLaunchAfterError ==
    [][ec # <<>> => dlCount' = dlCount]_vars

\* C9: if a worker reported an error and no interrupt occurred, Download
\* returns the error that arrived first on the error channel.
FirstErrorReturned ==
    (mainPc = "returned" /\ signals = 0 /\ firstErr # Nil) => retErr = firstErr

\* C9 witness: Download returned after a worker panicked and a second
\* worker's error is still buffered.
FirstErrorWitness ==
    /\ mainPc = "returned"
    /\ signals = 0
    /\ firstErr = WorkerPanicErr(1)
    /\ ec = <<ThunkErr(0)>>

\* C10 as stated: with zero thunks Download starts no worker and returns the
\* error "Got no downloaders from the plugin." with no artifact list.
ZeroThunksNoDownloaders ==
    nThunks = 0 =>
        /\ \A n \in Workers : wpc[n] = "none"
        /\ mainPc = "returned" => (retErr = ErrNoDownloaders /\ retPaths = <<>>)

\* C10 as amended: with zero thunks Download starts no worker and returns a
\* non-nil error with no artifact list; the error is "Got no downloaders from
\* the plugin." unless the main loop took a pending interrupt, and then it is
\* ErrInterrupted.
ZeroThunksError ==
    nThunks = 0 =>
        /\ \A n \in Workers : wpc[n] = "none"
        /\ mainPc = "returned" =>
            /\ retPaths = <<>>
            /\ retErr = IF exitVia = "interrupt" THEN ErrInterrupted
                        ELSE ErrNoDownloaders
            /\ signals = 0 => retErr = ErrNoDownloaders

\* C10 witness: a zero-thunk run returned the no-downloaders error.
ZeroThunksWitness ==
    /\ nThunks = 0
    /\ mainPc = "returned"
    /\ retErr = ErrNoDownloaders
    /\ spPc = "exited"

\* C11: whenever Download returns a non-nil error, the returned artifact
\* list is empty.
ErrorMeansNoPaths ==
    (mainPc = "returned" /\ retErr # Nil) => retPaths = <<>>

\* The path of sink s has been sent on dr.saved: it is in the channel, in the
\* main goroutine's hands or in dm.paths.
Recorded(s) ==
    \/ \E i \in 1 .. Len(got) : got[i] = s
    \/ cur = <<"path", s>>
    \/ \E i \in 1 .. Len(paths) : paths[i] = s

\* C12: a path is reported as a saved artifact only after the file of its
\* sink has been closed successfully.
NotifyAfterClose ==
    \A s \in Sinks : Recorded(s) => sinks[s].file = "closed"

\* C13: a FileWriter sink on which a write failed and which is then closed
\* records no artifact.
FailedWriteNotRecorded ==
    \A s \in Sinks :
        (sinks[s].kind = "FileWriter" /\ sinks[s].werr /\ sinks[s].pc = "closed")
            => ~Recorded(s)

\* No value occurs twice in the sequence s.
NoDuplicates(s) == \A i, j \in 1 .. Len(s) : s[i] = s[j] => i = j

\* C14: no path appears twice in the list returned by Download.
NoDuplicatePaths ==
    mainPc = "returned" => NoDuplicates(retPaths)

\* The thunks the generator has returned so far (dlgen() calls that did not
\* return nil).
Obtained == 0 .. ((IF next THEN genCalls ELSE genCalls - 1) - 1)

\* The workers thunk t was passed to.
HandedTo(t) == {i \in 1 .. Len(handed) : handed[i] = t}

\* C15 as stated: once the spawner has stopped, every thunk it obtained from
\* the generator has been handed to exactly one worker.
EveryThunkHandedOnce ==
    spPc \in {"senddone", "exited"} =>
        \A t \in Obtained : Cardinality(HandedTo(t)) = 1

\* C15 as amended: a thunk is handed to at most one worker, only thunks the
\* generator returned are handed, worker k runs thunk k, and every obtained
\* thunk has been handed to exactly one worker except the one the spawner
\* still holds in next (which is never handed when the spawner stops on a
\* worker's error).
ThunkHandedAtMostOnce ==
    /\ \A i \in 1 .. Len(handed) : handed[i] = i - 1
    /\ Len(handed) = dlCount
    /\ \A t \in Obtained :
        /\ Cardinality(HandedTo(t)) <= 1
        /\ (HandedTo(t) = {}) => (next /\ t = genCalls - 1)
    /\ \A n \in Workers : (wpc[n] # "none") <=> (HandedTo(n) # {})
    /\ (~next /\ spPc # "notstarted") =>
        \A t \in Obtained : Cardinality(HandedTo(t)) = 1

\* C15 witness: the spawner stopped on a worker's error while holding the
\* second thunk, which no worker received.
ThunkDroppedWitness ==
    /\ spPc = "exited"
    /\ next
    /\ genCalls = 2
    /\ handed = <<0>>
    /\ wpc[1] = "none"

\* The elements of a sequence.
Range(f) == {f[i] : i \in DOMAIN f}

\* What the claim asks of a run directory and the sinks' destinations: one
\* archive <segment>.zip in the run directory per first segment, holding
\* that segment's artifacts (paths relative to the segment).
ExpectedArchives ==
    LET segment(dst) == Split(dst, Sep)[1]
        rest(dst) == StringsJoin(Tail(Split(dst, Sep)), Sep)
        dsts == Range(zip.dsts)
    IN {[path |-> Clean(directory) \o <<Sep>> \o seg \o <<".zip">>,
         entries |-> {rest(d) : d \in {x \in dsts : segment(x) = seg}}]
            : seg \in {segment(d) : d \in dsts}}

\* C16: when ZipDownloads returns without error, the archives it wrote are
\* exactly one <segment>.zip per first path segment, each holding that
\* segment's artifacts, whether or not dm.directory ends with a separator.
OneArchivePerSegment ==
    (zip.pc = "returned" /\ zip.err = Nil) =>
        {[path |-> a.path, entries |-> Range(a.entries)] : a \in zip.archives}
            = ExpectedArchives

\* C17: if creating an archive, adding an entry or copying an artifact's
\* bytes failed, no source directory is deleted and ZipDownloads returns an
\* error.
ZipFailureKeepsSources ==
    (zip.failed \cap {"create", "header", "open", "copy"} # {}) =>
        /\ zip.removed = {}
        /\ zip.pc = "returned" => zip.err # Nil

\* Sum of the areas of the rectangles.
RECURSIVE TotalArea(_)
TotalArea(rects) ==
    IF rects = <<>> THEN 0
    ELSE Head(rects).width * Head(rects).height + TotalArea(Tail(rects))

\* The destination rectangles of a and b share a pixel.
DstOverlap(a, b) ==
    /\ a.width > 0 /\ a.height > 0 /\ b.width > 0 /\ b.height > 0
    /\ a.dst[1] < b.dst[1] + b.width /\ b.dst[1] < a.dst[1] + a.width
    /\ a.dst[2] < b.dst[2] + b.height /\ b.dst[2] < a.dst[2] + a.height

\* The destination rectangles lie inside [0, w) x [0, h), are pairwise
\* disjoint and fill its area: every pixel is covered exactly once.
CoversExactlyOnce(rects, w, h) ==
    /\ \A k \in 1 .. Len(rects) :
        /\ rects[k].dst[1] >= 0 /\ rects[k].dst[1] + rects[k].width <= w
        /\ rects[k].dst[2] >= 0 /\ rects[k].dst[2] + rects[k].height <= h
    /\ \A j, k \in 1 .. Len(rects) : j < k => ~DstOverlap(rects[j], rects[k])
    /\ TotalArea(rects) = w * h

\* C18: the destination rectangles of every collection the BookWalker
\* derivation produced cover [0, sw) x [0, sh) exactly once.
DestinationsCoverOnce ==
    \A p \in 1 .. patternCount :
        LET col == ds.rectangleCollections[p]
        IN col # NoCollection =>
            CoversExactlyOnce(col.rectangles, col.srcWidth, col.srcHeight)

\* C19: the image a Descramble call returns has the dimensions
\* (sw - dummy_w, sh - dummy_h) of that call's own arguments.
OutputHasOwnDimensions ==
    call.result = "image" =>
        /\ call.width = call.srcWidth - call.dummyWidth
        /\ call.height = call.srcHeight - call.dummyHeight

\* C20: NewDescrambler returns a descrambler for a Type-1 key pair only if
\* 1 <= h <= 8, 1 <= v <= 8, h*v <= 64, both keys carry the same h, v and
\* padding, the C key has sign "+" and the P key sign "-", and both payloads
\* have length h + v + h*v.
Type1Accepted ==
    binb.result = "ok" =>
        /\ pair.c # NoKey /\ pair.p # NoKey
        /\ pair.c.h \in 1 .. 8 /\ pair.c.v \in 1 .. 8
        /\ pair.c.h * pair.c.v <= 64
        /\ pair.p.h = pair.c.h /\ pair.p.v = pair.c.v
        /\ pair.p.padding = pair.c.padding
        /\ pair.c.sign = "+" /\ pair.p.sign = "-"
        /\ pair.c.len = pair.c.h + pair.c.v + pair.c.h * pair.c.v
        /\ pair.p.len = pair.c.len

\* C21: decryptData returns as many bytes as the printable-ASCII data has
\* characters, every byte lies in [0x20, 0x7E), and the keystream state is
\* non-zero and at most 0x7FFFFFFF at every step (uint32 arithmetic).
DecryptTotal ==
    api.pc \in {"loop", "returned"} =>
        /\ api.key # U32(0)
        /\ api.key.hi < 2^15
        /\ Len(api.buf) + Len(api.rest) = Len(api.data)
        /\ \A j \in 1 .. Len(api.buf) : api.buf[j] >= 32 /\ api.buf[j] < 126

\* C21 witness: a call returned MaxData bytes after the keystream took the
\* feedback branch, with a key whose derivation wrapped at 32 bits.
DecryptWitness ==
    /\ api.pc = "returned"
    /\ Len(api.buf) = MaxData
    /\ api.key.hi >= 18464
    /\ makeKeyLoop(api.Cid \o <<58>> \o api.K, 0, U32(0)).hi >= 2^15

\* C22: a hidden option "!Workers" or "!Zip" of the right type replaces the
\* caller's maxWorkers / zipit; one of the wrong type makes Download fail
\* before DownloadGenerator is called.
Pinned(key, T) ==
    {special.options[i].Value : i \in {j \in 1 .. Len(special.options) :
        /\ special.options[j].Key = <<"!", key>>
        /\ special.options[j].type = T}}
WrongType(key, T) ==
    \E i \in 1 .. Len(special.options) :
        /\ special.options[i].Key = <<"!", key>>
        /\ special.options[i].type # T
HiddenOptionsPin ==
    /\ special.pc = "running" =>
        /\ ~WrongType("Zip", "*ForceZipOption")
        /\ ~WrongType("Workers", "*MaxWorkersOption")
    /\ (/\ special.pc \in {"running", "panicked"}
        /\ ~WrongType("Zip", "*ForceZipOption")
        /\ ~WrongType("Workers", "*MaxWorkersOption")) =>
            /\ special.pc = "running"
            /\ \A v \in Pinned("Zip", "*ForceZipOption") : special.zipit = v
            /\ \A v \in Pinned("Workers", "*MaxWorkersOption") :
                   special.maxWorkers = v

\* C23: under every interleaving of concurrent Descramble calls on one
\* descrambler, a call that returns has blitted with a collection recorded
\* for its own image size.
OwnCollection(i) ==
    conc.calls[i].pc = "returned" =>
        /\ conc.calls[i].used = Col(conc.calls[i].size)
        /\ conc.calls[i].dst = Col(conc.calls[i].size)
BlitsWithOwnCollection ==
    conc.kind # "-" => \A i \in ConcCalls : OwnCollection(i)

\* C24: when the size thresholds for the padding are not met, the
\* destination size is the source size and every rectangle is the one
\* derived from the same rows with padding 0.
PaddingTreatedAsZero ==
    (/\ dsc.pc = "returned"
     /\ ~PaddingApplies(dsc.data[dsc.c + 1].h, dsc.data[dsc.p + 1].v,
                        dsc.data[dsc.c + 1].padding, dsc.srcWidth, dsc.srcHeight)) =>
        /\ dsc.col.dstWidth = dsc.srcWidth
        /\ dsc.col.dstHeight = dsc.srcHeight
        /\ dsc.col.rectangles =
             rectanglesType1([dsc.data[dsc.c + 1] EXCEPT !.padding = 0],
                             dsc.data[dsc.p + 1],
                             dsc.srcWidth, dsc.srcHeight).rectangles

\* C25: progress.Done(n) is called exactly once for a worker whose thunk
\* returned nil, returned an error or panicked, and only after the thunk
\* has finished (so after every Report the thunk's writes made).
DoneOnceAfterThunk ==
    \A n \in Workers :
        /\ wpc[n] \in {"none", "run", "save", "ret_ok", "ret_err", "ret_panic"}
               => pdone[n] = 0
        /\ wpc[n] \in {"reported", "done"} => pdone[n] = 1

\* C25 witness: one worker ended after a panic, another after an error, and
\* Done was called for both.
DoneOnceWitness ==
    \E n, m \in Workers :
        /\ wpc[n] = "done" /\ wpc[m] = "done"
        /\ pdone[n] = 1 /\ pdone[m] = 1
        /\ firstErr = WorkerPanicErr(n)
        /\ \E j \in 1 .. Len(ec) : ec[j] = ThunkErr(m)

\* C26: for every descrambler NewDescrambler accepts and every file name,
\* the indices cpIndex yields address existing rows of the key tables and
\* of the rectangle cache: Descramble never indexes out of range.
IndicesInRange ==
    dsc.pc \in {"cell", "returned", "index out of range"} =>
        /\ dsc.c < Len(dsc.data)
        /\ dsc.p < Len(dsc.data)
        /\ dsc.pc # "index out of range"

\* C27: the worker id passed to the k-th thunk obtained from the generator
\* (k from 0) is k: the ids in use are exactly the indices of the thunks
\* launched so far, in generator order, none reused.
WorkerIdIsThunkIndex ==
    /\ \A i \in 1 .. Len(handed) : handed[i] = i - 1
    /\ {n \in Workers : wpc[n] # "none"} = {handed[i] : i \in 1 .. Len(handed)}
    /\ WorkerId = Len(handed)

\* C27 witness: with one slot, thunk 1 runs as worker 1 after worker 0 has
\* ended and freed the slot.
WorkerIdWitness ==
    /\ W = 1
    /\ handed = <<0, 1>>
    /\ wpc[0] = "done"
    /\ wpc[1] = "run"

\* C28: a worker's send of its error on ec never blocks: the errors
\* buffered plus the workers about to send are at most the slots held, which
\* are at most W, because a failed worker keeps its slot.
ErrSendNeverBlocks ==
    LET sending == {n \in Workers : wpc[n] \in {"ret_err", "ret_panic"}}
    IN /\ sending # {} => Len(ec) < W
       /\ Len(ec) + Cardinality(sending) <= limiter
       /\ limiter <= W

\* C28 witness: the error channel is full (W = 2 errors buffered) and both
\* failed workers have ended.
ErrSendWitness ==
    /\ W = 2
    /\ Len(ec) = 2
    /\ wpc[0] = "done"
    /\ wpc[1] = "done"

\* C29: with W >= 1, a generator that yields its thunks and then nil, thunks
\* that terminate and no interrupt, Download eventually returns under fair
\* scheduling.
DownloadReturns ==
    [](exitVia # "panic") => <>(mainPc = "returned")

\* C30: for every pattern and every source size with at least two tiles per
\* axis, the anchor tile indices satisfy 1 <= i <= rectsX - 1 and
\* 1 <= n <= rectsY - 1, so the moduli of the strip helpers (the anchor, and
\* the tile count minus the anchor) are strictly positive.
AnchorsInRange ==
    (/\ call.result \in {"image", "panic"}
     /\ call.srcWidth \div rectangleWidth >= 2
     /\ call.srcHeight \div rectangleHeight >= 2) =>
        LET rectsX == call.srcWidth \div rectangleWidth
            rectsY == call.srcHeight \div rectangleHeight
            i == borderIndex(rectsX, jsd, call.pattern)
            n == borderIndex(rectsY, jse, call.pattern)
        IN /\ 1 <= i /\ i <= rectsX - 1
           /\ 1 <= n /\ n <= rectsY - 1
           /\ \A u \in 0 .. rectsX - 1 :
                  moduloYXRest(u, i, n, rectsY, call.pattern) > 0
           /\ \A v \in 0 .. rectsY - 1 :
                  moduloXYRest(v, i, n, rectsX, call.pattern) > 0

====
